---- MODULE Spec2Model ----
(***************************************************************************)
(* Model of the SRM canteen menu pipeline (src/SRM_Canteen_Menu/src/App.tsx)*)
(*                                                                         *)
(* Three specifications share this module:                                 *)
(*   Spec       - the App component: its four state cells, the effect that *)
(*                starts the first fetch cycle and the interval timer, and *)
(*                the asynchronous steps of every fetchMenuData call       *)
(*                (ResponsiveSpec adds fairness to it; IntervalSpec lets   *)
(*                the interval fire without a bound).                      *)
(*   ParseSpec  - parseCSVToJSON as a pure function, applied to CSV texts  *)
(*                drawn from a bounded family of inputs.                   *)
(*   RenderSpec - groupByMealType and sortedMealTypes, applied to menus    *)
(*                drawn from a bounded family of inputs.                   *)
(*                                                                         *)
(* A JavaScript string is a sequence of one-character strings, so that     *)
(* trim, split and === act on characters as they do in the code.  Fixed    *)
(* messages (the error text, logged causes) are TLA+ strings; a date label *)
(* is the tuple of the parts it shows: weekday, day, month, year.          *)
(***************************************************************************)
EXTENDS Integers, Sequences, FiniteSets, TLC

VARIABLES
    \* ---- App component, Spec ----
    phase,        \* "init": rendered, effect not yet run; "active"; "inactive": cleanup ran
    timer,        \* TRUE while the setInterval registration exists
    menuItems,    \* useState<MenuItem[]>([])
    loading,      \* useState(true)
    error,        \* useState<string | null>(null)
    currentDate,  \* useState('')
    cycles,       \* the fetchMenuData calls made so far, in start order
    resolved,     \* ids of the calls that ran to completion, in completion order
    writer,       \* for each state cell, the id of the call that last set it (0: initial value)
    ticks,        \* number of interval callbacks run
    requests,     \* number of fetch() calls issued
    consoleLog,   \* causes passed to console.error, in order
    tz,           \* the display timezone's offset from UTC, in minutes
    clock,        \* the instant the system clock gave when last read
    \* ---- parseCSVToJSON, ParseSpec ----
    csvLines,     \* the input, as the lines it was written from
    csvText,      \* the input text handed to parseCSVToJSON
    parsed,       \* the value parseCSVToJSON returned
    parseDone,    \* TRUE once parseCSVToJSON has returned
    \* ---- the render of the menu, RenderSpec ----
    groupedMenu,      \* const groupedMenu: its own properties, in creation order
    sortedMealTypes,  \* const sortedMealTypes
    rendered          \* "idle"; "done": the render computed both; "threw": it threw

appVars == <<phase, timer, menuItems, loading, error, currentDate, cycles,
             resolved, writer, ticks, requests, consoleLog, tz, clock>>
parseVars == <<csvLines, csvText, parsed, parseDone>>
renderVars == <<groupedMenu, sortedMealTypes, rendered>>
vars == <<appVars, parseVars, renderVars>>

----------------------------------------------------------------------------
(* Bounds of the model *)

\* fetch cycles started in one behaviour of Spec
MaxCycles == 2
\* lines of an input text of ParseSpec
MaxLines == 3
\* comma-separated fields of one line of an input text of ParseSpec
MaxFields == 4

----------------------------------------------------------------------------
(* JavaScript values *)

\* the value null of `string | null`
NULL == "null"
\* the value undefined, as read from an array index past the end; no string
\* of the model equals it, since every string is a sequence of 1-character strings
UNDEFINED == <<"undefined">>

\* String.prototype.trim strips white space and line terminators: space, tab,
\* line feed, carriage return, form feed, vertical tab (U+000B), no-break
\* space (U+00A0), zero width no-break space (U+FEFF) and ogham space mark
\* (U+1680). The other characters it strips (U+2000..U+200A, U+2028, U+2029,
\* U+202F, U+205F, U+3000) cannot be written in a string of this language
\* and occur in no text of the model.
WhiteSpace == {" ", "\t", "\n", "\r", "\f", "", " ", "﻿", " "}

RECURSIVE trimStart(_)
trimStart(s) ==
    IF s = <<>> THEN s
    ELSE IF Head(s) \in WhiteSpace THEN trimStart(Tail(s)) ELSE s

RECURSIVE trimEnd(_)
trimEnd(s) ==
    IF s = <<>> THEN s
    ELSE IF s[Len(s)] \in WhiteSpace THEN trimEnd(SubSeq(s, 1, Len(s) - 1)) ELSE s

trim(s) == trimEnd(trimStart(s))

\* String.prototype.split with a one-character separator: the pieces between
\* the separators, in order; a text without separator is one piece, also ''
RECURSIVE split(_, _)
split(s, sep) ==
    IF \A i \in 1..Len(s) : s[i] # sep THEN <<s>>
    ELSE LET i == CHOOSE k \in 1..Len(s) :
                      s[k] = sep /\ \A j \in 1..(k - 1) : s[j] # sep
         IN <<SubSeq(s, 1, i - 1)>> \o split(SubSeq(s, i + 1, Len(s)), sep)

\* Array.prototype.map(x => x.trim())
mapTrim(xs) == [i \in 1..Len(xs) |-> trim(xs[i])]

\* values[k] of a JavaScript array, k counted from 0
at(values, k) == IF k + 1 <= Len(values) THEN values[k + 1] ELSE UNDEFINED

----------------------------------------------------------------------------
(* parseCSVToJSON *)

\* the object literal pushed for one accepted row
MenuItem(values) ==
    [Date |-> at(values, 0), Meal_Type |-> at(values, 1),
     Item_Name |-> at(values, 2), Price |-> at(values, 3)]

\* the loop keeping every row, whatever its length
RECURSIVE parseRowsNoLengthCheck(_, _, _, _)
parseRowsNoLengthCheck(lines, headers, i, data) ==
    IF ~(i < Len(lines)) THEN data
    ELSE LET values == mapTrim(split(lines[i + 1], ","))
         IN parseRowsNoLengthCheck(lines, headers, i + 1,
                                   Append(data, MenuItem(values)))

\* the body of the for loop from index i (counted from 0) on, data being
\* the array built so far
RECURSIVE parseRows(_, _, _, _)
parseRows(lines, headers, i, data) ==
    IF ~(i < Len(lines)) THEN data
    ELSE LET values == mapTrim(split(lines[i + 1], ","))
         IN parseRows(lines, headers, i + 1,
                      IF Len(values) = Len(headers)
                      THEN Append(data, MenuItem(values))
                      ELSE data)

parseCSVToJSON(csv) ==
    LET lines == split(trim(csv), "\n")
        headers == mapTrim(split(lines[1], ","))
    IN parseRows(lines, headers, 1, <<>>)

----------------------------------------------------------------------------
(* Date: an instant is a number of minutes since 1970-01-01T00:00Z *)

MinutesPerDay == 24 * 60

\* the day number (days since 1970-01-01) of an instant shifted by offset minutes
dayOf(t, offset) == (t + offset) \div MinutesPerDay

\* year, month and day of month of a day number in the proleptic Gregorian calendar
civil(days) ==
    LET z == days + 719468
        era == z \div 146097
        doe == z - era * 146097
        yoe == (doe - doe \div 1460 + doe \div 36524 - doe \div 146096) \div 365
        doy == doe - (365 * yoe + yoe \div 4 - yoe \div 100)
        mp == (5 * doy + 2) \div 153
        d == doy - (153 * mp + 2) \div 5 + 1
        m == IF mp < 10 THEN mp + 3 ELSE mp - 9
        y == yoe + era * 400 + (IF m <= 2 THEN 1 ELSE 0)
    IN [year |-> y, month |-> m, day |-> d]

Digits == <<"0", "1", "2", "3", "4", "5", "6", "7", "8", "9">>
digit(n) == Digits[n + 1]
pad2(n) == <<digit(n \div 10), digit(n % 10)>>
pad4(n) == <<digit(n \div 1000), digit((n \div 100) % 10)>> \o pad2(n % 100)

\* new Date().toISOString().split('T')[0]: the UTC calendar date, YYYY-MM-DD
isoDate(t) ==
    LET c == civil(dayOf(t, 0))
    IN pad4(c.year) \o <<"-">> \o pad2(c.month) \o <<"-">> \o pad2(c.day)

WeekdayNames == <<"Sunday", "Monday", "Tuesday", "Wednesday", "Thursday",
                  "Friday", "Saturday">>
MonthNames == <<"January", "February", "March", "April", "May", "June", "July",
                "August", "September", "October", "November", "December">>

\* new Date().toLocaleDateString('en-IN', {weekday: 'long', year: 'numeric',
\* month: 'long', day: 'numeric'}): the calendar date in the display timezone,
\* as the four parts the format shows
toLocaleDateString(t, offset) ==
    LET days == dayOf(t, offset)
        c == civil(days)
    IN <<WeekdayNames[((days + 4) % 7) + 1], c.day, MonthNames[c.month], c.year>>

\* 2024-01-01T00:00Z
NewYear2024 == 19723 * MinutesPerDay

\* the instant the component is mounted: 2023-12-31T20:00Z
Mounted == NewYear2024 - 240

\* the instants at which a cycle may read the clock: 2023-12-31T20:00Z and
\* 2024-01-01T02:00Z
Instants == {Mounted, NewYear2024 + 120}

\* display timezones: UTC-05:00, UTC, UTC+05:30 (India)
TimeZones == {-300, 0, 330}

----------------------------------------------------------------------------
(* Response bodies the published sheet may return *)

HeaderLine == <<"D", "a", "t", "e", ",", "M", "e", "a", "l", "_", "T", "y", "p", "e", ",",
                "I", "t", "e", "m", "_", "N", "a", "m", "e", ",", "P", "r", "i", "c", "e">>
Lunch == <<"L", "u", "n", "c", "h">>
Breakfast == <<"B", "r", "e", "a", "k", "f", "a", "s", "t">>
Snacks == <<"S", "n", "a", "c", "k", "s">>
Rice == <<"R", "i", "c", "e">>
Idli == <<"I", "d", "l", "i">>
Tea == <<"T", "e", "a">>
BadRow == <<"b", "a", "d", "r", "o", "w", ",", "o", "n", "l", "y", "t", "w", "o">>

csvRow(date, mealType, itemName, price) ==
    date \o <<",">> \o mealType \o <<",">> \o itemName \o <<",">> \o price

RECURSIVE joinLines(_)
joinLines(ls) ==
    IF ls = <<>> THEN <<>>
    ELSE IF Len(ls) = 1 THEN ls[1]
    ELSE ls[1] \o <<"\n">> \o joinLines(Tail(ls))

\* the sheet of section 8, scenario A
SheetA ==
    joinLines(<<HeaderLine,
                csvRow(isoDate(NewYear2024), Lunch, Rice, <<"5", "0">>),
                csvRow(isoDate(NewYear2024), Breakfast, Idli, <<"3", "0">>),
                BadRow, <<>> >>)

\* a sheet with one row for 2024-01-01 and one for the day before
SheetB ==
    joinLines(<<HeaderLine,
                csvRow(isoDate(NewYear2024 - MinutesPerDay), Lunch, Rice, <<"5", "0">>),
                csvRow(isoDate(NewYear2024), Snacks, Tea, <<"1", "0">>) >>)

\* on 2023-12-31 no row of sheet A is of today, on 2024-01-01 two are; sheet B
\* has one row of today on either day
Sheets == {SheetA, SheetB}

----------------------------------------------------------------------------
(* The App component *)

ErrorMessage == "Unable to load menu. Please try again later."

\* what fetch() rejects with, what line 44 throws, what response.text() rejects with
TransportFailure == "TypeError: Failed to fetch"
BadStatus == "Error: Failed to fetch menu"
BodyFailure == "TypeError: Failed to read the response body"
Causes == {TransportFailure, BadStatus, BodyFailure}

CellsInit == [menuItems |-> 0, currentDate |-> 0, error |-> 0]

AppInit ==
    /\ phase = "init"
    /\ timer = FALSE
    /\ menuItems = <<>>
    /\ loading = TRUE
    /\ error = NULL
    /\ currentDate = <<>>
    /\ cycles = <<>>
    /\ resolved = <<>>
    /\ writer = CellsInit
    /\ ticks = 0
    /\ requests = 0
    /\ consoleLog = <<>>

ParseIdle ==
    /\ csvLines = <<>>
    /\ csvText = <<>>
    /\ parsed = <<>>
    /\ parseDone = FALSE

RenderIdle ==
    /\ groupedMenu = <<>>
    /\ sortedMealTypes = <<>>
    /\ rendered = "idle"

Init ==
    /\ AppInit
    /\ tz \in TimeZones
    /\ clock = Mounted
    /\ ParseIdle
    /\ RenderIdle

\* what the main area renders from the state cells
Status ==
    IF loading THEN "Loading"
    ELSE IF error # NULL THEN "Error"
    ELSE IF Len(menuItems) = 0 THEN "Empty"
    ELSE "Menu"

InFlight(c) == cycles[c].pc \in {"fetch", "text"}
CycleIds == 1..Len(cycles)

\* a call suspended at await fetch; data, today, view and label record what the
\* call computes once it succeeds
NewCycle ==
    [pc |-> "fetch", data |-> <<>>, today |-> <<>>, view |-> <<>>, label |-> <<>>]

\* the first await reached without touching the loading flag or the error
fetchMenuDataStartSilent ==
    /\ requests' = requests + 1
    /\ cycles' = Append(cycles, NewCycle)
    /\ UNCHANGED <<loading, error, writer, menuItems, currentDate, resolved,
                   consoleLog, clock>>

\* fetchMenuData up to its first await: the call becomes cycle Len(cycles) + 1
fetchMenuDataStart ==
    /\ loading' = TRUE
    /\ error' = NULL
    /\ writer' = [writer EXCEPT !.error = Len(cycles) + 1]
    /\ requests' = requests + 1
    /\ cycles' = Append(cycles, NewCycle)
    /\ UNCHANGED <<menuItems, currentDate, resolved, consoleLog, clock>>

\* the effect registering the interval without the immediate call
ActivateTimerOnly ==
    /\ phase = "init"
    /\ phase' = "active"
    /\ timer' = TRUE
    /\ UNCHANGED <<menuItems, loading, error, currentDate, cycles, resolved, writer,
                   ticks, requests, consoleLog, tz, clock, parseVars, renderVars>>

\* the effect: the immediate call, then setInterval
Activate ==
    /\ phase = "init"
    /\ phase' = "active"
    /\ fetchMenuDataStart
    /\ timer' = TRUE
    /\ UNCHANGED <<ticks, tz, parseVars, renderVars>>

\* the interval callback, every 5 * 60 * 1000 ms while the interval is registered
Tick ==
    /\ timer
    /\ Len(cycles) < MaxCycles
    /\ ticks' = ticks + 1
    /\ fetchMenuDataStart
    /\ UNCHANGED <<phase, timer, tz, parseVars, renderVars>>

\* a cleanup that forgets clearInterval
DeactivateKeepsTimer ==
    /\ phase = "active"
    /\ phase' = "inactive"
    /\ UNCHANGED <<timer, menuItems, loading, error, currentDate, cycles, resolved,
                   writer, ticks, requests, consoleLog, tz, clock, parseVars, renderVars>>

\* the effect's cleanup: clearInterval
Deactivate ==
    /\ phase = "active"
    /\ phase' = "inactive"
    /\ timer' = FALSE
    /\ UNCHANGED <<menuItems, loading, error, currentDate, cycles, resolved, writer,
                   ticks, requests, consoleLog, tz, clock, parseVars, renderVars>>

\* a catch block showing the cause
catchErrorShowsCause(cause) == cause

\* the argument of setError in the catch block
catchError(cause) == ErrorMessage

\* a catch block that issues the request once more
failWithRetry(c, cause) ==
    /\ error' = catchError(cause)
    /\ consoleLog' = Append(consoleLog, cause)
    /\ loading' = FALSE
    /\ writer' = [writer EXCEPT !.error = c]
    /\ cycles' = [cycles EXCEPT ![c].pc = "failed"]
    /\ resolved' = Append(resolved, c)
    /\ requests' = requests + 1
    /\ UNCHANGED <<menuItems, currentDate, phase, timer, ticks, tz, clock, parseVars, renderVars>>

\* a failure path that leaves the loading flag alone
failKeepsLoading(c, cause) ==
    /\ error' = catchError(cause)
    /\ consoleLog' = Append(consoleLog, cause)
    /\ writer' = [writer EXCEPT !.error = c]
    /\ cycles' = [cycles EXCEPT ![c].pc = "failed"]
    /\ resolved' = Append(resolved, c)
    /\ UNCHANGED <<loading, menuItems, currentDate, phase, timer, ticks, requests, tz,
                   clock, parseVars, renderVars>>

\* catch and finally of cycle c, entered with the thrown cause
fail(c, cause) ==
    /\ error' = catchError(cause)
    /\ consoleLog' = Append(consoleLog, cause)
    /\ loading' = FALSE
    /\ writer' = [writer EXCEPT !.error = c]
    /\ cycles' = [cycles EXCEPT ![c].pc = "failed"]
    /\ resolved' = Append(resolved, c)
    /\ UNCHANGED <<menuItems, currentDate, phase, timer, ticks, requests, tz, clock,
                   parseVars, renderVars>>

\* fetch() rejects: transport failure
FetchRejects(c) ==
    /\ cycles[c].pc = "fetch"
    /\ fail(c, TransportFailure)

\* fetch() resolves with a response whose ok is false: line 44 throws
FetchRespondsNotOk(c) ==
    /\ cycles[c].pc = "fetch"
    /\ fail(c, BadStatus)

\* the loading flag cleared as soon as the response arrives
FetchRespondsOkClearsLoading(c) ==
    /\ cycles[c].pc = "fetch"
    /\ cycles' = [cycles EXCEPT ![c].pc = "text"]
    /\ loading' = FALSE
    /\ UNCHANGED <<phase, timer, menuItems, error, currentDate, resolved,
                   writer, ticks, requests, consoleLog, tz, clock, parseVars, renderVars>>

\* fetch() resolves with an ok response: the call awaits response.text()
FetchRespondsOk(c) ==
    /\ cycles[c].pc = "fetch"
    /\ cycles' = [cycles EXCEPT ![c].pc = "text"]
    /\ UNCHANGED <<phase, timer, menuItems, loading, error, currentDate, resolved,
                   writer, ticks, requests, consoleLog, tz, clock, parseVars, renderVars>>

\* response.text() rejects
TextRejects(c) ==
    /\ cycles[c].pc = "text"
    /\ fail(c, BodyFailure)

\* the filter left out
filterTodayKeepsAll(data, today) == data

\* data.filter(item => item.Date === today)
filterToday(data, today) == SelectSeq(data, LAMBDA item : item.Date = today)

\* a result applied only when it comes from the call started last
applySuccessIfNewest(c, todaysMenu, label) ==
    IF c = Len(cycles)
    THEN /\ menuItems' = todaysMenu
         /\ currentDate' = label
         /\ writer' = [writer EXCEPT !.menuItems = c, !.currentDate = c]
    ELSE UNCHANGED <<menuItems, currentDate, writer>>

\* setMenuItems and setCurrentDate of cycle c
applySuccess(c, todaysMenu, label) ==
    /\ menuItems' = todaysMenu
    /\ currentDate' = label
    /\ writer' = [writer EXCEPT !.menuItems = c, !.currentDate = c]

\* response.text() resolves with csv: parse, read the clock (t1) for the today
\* key, filter, set the menu, read the clock again (t2) for the date label,
\* clear the loading flag; the wall clock may have been set back before
\* either reading
TextResolves(c, csv, t1, t2) ==
    /\ cycles[c].pc = "text"
    /\ clock' = t2
    /\ LET data == parseCSVToJSON(csv)
           today == isoDate(t1)
           todaysMenu == filterToday(data, today)
           label == toLocaleDateString(t2, tz)
       IN /\ applySuccess(c, todaysMenu, label)
          /\ cycles' = [cycles EXCEPT ![c] =
                            [pc |-> "ok", data |-> data, today |-> today,
                             view |-> todaysMenu, label |-> label]]
    /\ loading' = FALSE
    /\ resolved' = Append(resolved, c)
    /\ UNCHANGED <<error, consoleLog, phase, timer, ticks, requests, tz, parseVars, renderVars>>

Next ==
    \/ Activate
    \/ Tick
    \/ Deactivate
    \/ \E c \in CycleIds : FetchRejects(c)
    \/ \E c \in CycleIds : FetchRespondsNotOk(c)
    \/ \E c \in CycleIds : FetchRespondsOk(c)
    \/ \E c \in CycleIds : TextRejects(c)
    \/ \E c \in CycleIds, csv \in Sheets, t1 \in Instants, t2 \in Instants :
           TextResolves(c, csv, t1, t2)

Spec == Init /\ [][Next]_vars

\* the initial state with the display timezone UTC
ResponsiveInit ==
    /\ Init
    /\ tz = 0

----------------------------------------------------------------------------------------------------------------------------------------
(* The interval without a bound on the calls it starts.                    *)
(* The cells are as in Spec. The history (cycles, resolved, writer,        *)
(* consoleLog, requests) is kept for MaxCycles calls at most: a tick that  *)
(* finds MaxCycles calls recorded forgets the oldest of those that have    *)
(* settled; a suspended call is never forgotten. MaxCycles so bounds the   *)
(* calls suspended at one time: a tick that would start one more is left   *)
(* out. Call k of the history is the k-th oldest call recorded, writer 0   *)
(* stands for no recorded call, requests counts the requests of the        *)
(* recorded calls and ticks counts the ticks modulo 2. The display         *)
(* timezone, which no tick reads, is UTC.                                  *)

removeAt(seq, k) == SubSeq(seq, 1, k - 1) \o SubSeq(seq, k + 1, Len(seq))

\* the recorded calls that have settled, and the one of them started first
settled == {c \in CycleIds : ~InFlight(c)}
oldestSettled == CHOOSE c \in settled : \A d \in settled : c <= d

\* the number of call i once call k is forgotten
renumber(k, i) == IF i = k THEN 0 ELSE IF i > k THEN i - 1 ELSE i

\* the history without call k
forgetCycle(k) == removeAt(cycles, k)

forgetResolved(k) ==
    LET kept == SelectSeq(resolved, LAMBDA c : c # k)
    IN [i \in 1..Len(kept) |-> renumber(k, kept[i])]

forgetWriter(k) == [cell \in DOMAIN writer |-> renumber(k, writer[cell])]

\* the console without the line of call k: the lines are in the order in
\* which the recorded calls failed
forgetLog(k) ==
    IF cycles[k].pc # "failed" THEN consoleLog
    ELSE LET p == CHOOSE i \in 1..Len(resolved) : resolved[i] = k
             n == Cardinality({j \in 1..p : cycles[resolved[j]].pc = "failed"})
         IN removeAt(consoleLog, n)

\* the interval callback, every 5 * 60 * 1000 ms while the interval is
\* registered, however many calls were started before
IntervalTick ==
    /\ timer
    /\ Len(cycles) = MaxCycles => settled # {}
    /\ ticks' = (ticks + 1) % 2
    /\ IF Len(cycles) < MaxCycles
          THEN fetchMenuDataStart
          ELSE LET k == oldestSettled
               IN /\ loading' = TRUE
                  /\ error' = NULL
                  /\ writer' = [forgetWriter(k) EXCEPT !.error = MaxCycles]
                  /\ cycles' = Append(forgetCycle(k), NewCycle)
                  /\ resolved' = forgetResolved(k)
                  /\ consoleLog' = forgetLog(k)
                  /\ UNCHANGED <<requests, menuItems, currentDate, clock>>
    /\ UNCHANGED <<phase, timer, tz, parseVars, renderVars>>

IntervalNext ==
    \/ Activate
    \/ IntervalTick
    \/ Deactivate
    \/ \E c \in CycleIds : FetchRejects(c)
    \/ \E c \in CycleIds : FetchRespondsNotOk(c)
    \/ \E c \in CycleIds : FetchRespondsOk(c)
    \/ \E c \in CycleIds : TextRejects(c)
    \/ \E c \in CycleIds, csv \in Sheets, t1 \in Instants, t2 \in Instants :
           TextResolves(c, csv, t1, t2)

\* one step of cycle c towards its completion
Resolve(c) ==
    \/ FetchRejects(c)
    \/ FetchRespondsNotOk(c)
    \/ FetchRespondsOk(c)
    \/ TextRejects(c)
    \/ \E csv \in Sheets, t1 \in Instants, t2 \in Instants : TextResolves(c, csv, t1, t2)

\* the interval fires again and again while it is registered, and the
\* suspended calls do not all stay suspended for ever
IntervalSpec ==
    /\ ResponsiveInit
    /\ [][IntervalNext]_vars
    /\ WF_vars(IntervalTick)
    /\ WF_vars(\E c \in CycleIds : Resolve(c))

----------------------------------------------------------------------------
(* parseCSVToJSON applied to a bounded family of texts *)

\* a line of an input: n fields, or a blank line when n = 0; with style "a" or
\* "b" field j reads a<j> or b<j>, with style "pad" it reads a<j> between a
\* form feed and a space
LineStyles == {"a", "b", "pad"}
LineDescs ==
    {d \in [n : 0..MaxFields, style : LineStyles] : d.n = 0 => d.style # "b"}

\* the content of field j of a line, without surrounding white space
fieldContent(d, j) == <<IF d.style = "b" THEN "b" ELSE "a", digit(j)>>

fieldText(d, j) ==
    IF d.style = "pad" THEN <<"\f">> \o fieldContent(d, j) \o <<" ">>
    ELSE fieldContent(d, j)

RECURSIVE fieldsText(_, _)
fieldsText(d, j) ==
    IF j = d.n THEN fieldText(d, j)
    ELSE fieldText(d, j) \o <<",">> \o fieldsText(d, j + 1)

lineText(d) ==
    IF d.n = 0 THEN (IF d.style = "pad" THEN <<" ">> ELSE <<>>)
    ELSE fieldsText(d, 1)

textOf(ls) == joinLines([i \in 1..Len(ls) |-> lineText(ls[i])])

Inputs == UNION {[1..k -> LineDescs] : k \in 0..MaxLines}

ParseInit ==
    /\ AppInit
    /\ tz = 0
    /\ clock = Mounted
    /\ csvLines \in Inputs
    /\ csvText = textOf(csvLines)
    /\ parsed = <<>>
    /\ parseDone = FALSE
    /\ RenderIdle

\* one call parseCSVToJSON(csvText)
ParseCall ==
    /\ ~parseDone
    /\ parsed' = parseCSVToJSON(csvText)
    /\ parseDone' = TRUE
    /\ UNCHANGED <<csvLines, csvText, appVars, renderVars>>

ParseNext == ParseCall

ParseSpec == ParseInit /\ [][ParseNext]_vars

----------------------------------------------------------------------------
(* Properties of the App component, checked under Spec *)

NoneInFlight == \A c \in CycleIds : ~InFlight(c)
LastResolved == resolved[Len(resolved)]
Cells == {"menuItems", "currentDate", "error"}

\* cycle c runs to completion in this step
Completes(c) == InFlight(c) /\ cycles'[c].pc \in {"ok", "failed"}

\* C1: once no cycle is in flight, the exposed state is the outcome of the
\* cycle that resolved last: not loading, and either no error with that cycle's
\* view and date label (it succeeded) or the error message (it failed).
C1_LastResolvedWins ==
    (NoneInFlight /\ resolved # <<>>) =>
        /\ ~loading
        /\ IF cycles[LastResolved].pc = "ok"
           THEN /\ error = NULL
                /\ menuItems = cycles[LastResolved].view
                /\ currentDate = cycles[LastResolved].label
           ELSE error = ErrorMessage

\* C2: a step in which a cycle fails leaves the loading flag false and the
\* error equal to the one fixed message, and the error is never anything but
\* null or that message, whatever the cause.
C2_FailureShowsFixedMessage ==
    [][/\ \A c \in CycleIds :
              (InFlight(c) /\ cycles'[c].pc = "failed") =>
                  (loading' = FALSE /\ error' = ErrorMessage)
       /\ error' \in {NULL, ErrorMessage}]_vars

\* two cycles failed on different paths, and the error message is shown
C2_Witness ==
    /\ Len(consoleLog) = 2
    /\ consoleLog[1] # consoleLog[2]
    /\ cycles[LastResolved].pc = "failed"
    /\ Status = "Error"

\* C3: once the effect's cleanup has run, no state cell changes any more.
C3_FrozenAfterDeactivation ==
    [][phase = "inactive" =>
          UNCHANGED <<loading, error, menuItems, currentDate>>]_vars

\* C4: in the step a cycle completes, no state cell (menu records, date label,
\* error) holds a value that an earlier cycle set.
C4_CompletionReplacesAll ==
    [][\A c \in CycleIds :
          Completes(c) => \A cell \in Cells : writer'[cell] \notin 1..(c - 1)]_vars

\* C5: a cycle that succeeds with no record of today leaves the state Ready
\* with an empty view: not loading, error null, no menu items.
C5_EmptyResultIsNotError ==
    [][\A c \in CycleIds :
          (InFlight(c) /\ cycles'[c].pc = "ok" /\ cycles'[c].view = <<>>) =>
              (loading' = FALSE /\ error' = NULL /\ menuItems' = <<>>)]_vars

\* plus one per tick.
C7_InitialLoadingAndImmediateFetch ==
    /\ phase = "init" =>
           /\ loading = TRUE /\ error = NULL /\ menuItems = <<>>
           /\ cycles = <<>> /\ ticks = 0 /\ ~timer
    /\ phase # "init" => Len(cycles) = ticks + 1

\* the component is active, one cycle was started and no tick has run
C7_Witness ==
    phase = "active" /\ ticks = 0 /\ Len(cycles) = 1 /\ InFlight(1) /\ timer

\* C8: after the cleanup no cycle is started and no request is issued, and the
\* interval is not registered.
C8_NoCycleAfterDeactivation ==
    [][phase = "inactive" =>
          /\ Len(cycles') = Len(cycles)
          /\ requests' = requests
          /\ ticks' = ticks
          /\ ~timer']_vars

\* the component was deactivated with a cycle in flight, which has resolved since
C8_Witness ==
    /\ phase = "inactive"
    /\ Len(cycles) >= 1
    /\ Len(cycles) < MaxCycles
    /\ NoneInFlight

\* C9: when two cycles both succeed and the one started first is the one
\* that resolves last, the menu and the date label shown, once that cycle has
\* resolved, are those it computed.
C9_StaleCycleWins ==
    \A c, d \in CycleIds :
        (/\ c < d
         /\ cycles[c].pc = "ok" /\ cycles[d].pc = "ok"
         /\ resolved # <<>> /\ LastResolved = c
         /\ \E i \in 1..Len(resolved) : resolved[i] = d) =>
            (menuItems = cycles[c].view /\ currentDate = cycles[c].label)

\* cycle 1 resolved after cycle 2, both with success and with different views
C9_Witness ==
    /\ Len(cycles) >= 2
    /\ cycles[1].pc = "ok" /\ cycles[2].pc = "ok"
    /\ resolved = <<2, 1>>
    /\ cycles[1].view # cycles[2].view
    /\ menuItems = cycles[1].view

----------------------------------------------------------------------------
(* Properties of parseCSVToJSON, checked under ParseSpec *)

\* the number of comma-separated fields of a line; a blank line is one empty field
fieldCount(d) == IF d.n = 0 THEN 1 ELSE d.n
trimmedField(d, j) == IF d.n = 0 THEN <<>> ELSE fieldContent(d, j)

RECURSIVE dropLeadingBlank(_)
dropLeadingBlank(ls) ==
    IF ls # <<>> /\ ls[1].n = 0 THEN dropLeadingBlank(Tail(ls)) ELSE ls

RECURSIVE dropTrailingBlank(_)
dropTrailingBlank(ls) ==
    IF ls # <<>> /\ ls[Len(ls)].n = 0
    THEN dropTrailingBlank(SubSeq(ls, 1, Len(ls) - 1)) ELSE ls

\* the lines of the text once white space is trimmed from both its ends
trimmedLines(ls) == dropTrailingBlank(dropLeadingBlank(ls))

fieldsOf(item) == <<item.Date, item.Meal_Type, item.Item_Name, item.Price>>

\* the rows after the header ls[1] with as many fields as the header
dataRows(ls) ==
    IF ls = <<>> THEN <<>>
    ELSE SelectSeq(Tail(ls), LAMBDA d : fieldCount(d) = fieldCount(ls[1]))

\* out holds one record per data row of ls, in order, with the row's trimmed
\* fields in the positions date, category, name, price
IsParseOf(out, ls) ==
    LET rows == dataRows(ls)
    IN /\ Len(out) = Len(rows)
       /\ \A k \in 1..Len(rows) :
              \A j \in 1..4 :
                  j <= fieldCount(rows[k]) => fieldsOf(out[k])[j] = trimmedField(rows[k], j)

\* the lines of the text as written, a newline at the very end of the text
\* ending the last line rather than starting an empty one
writtenLines(ls) ==
    IF ls # <<>> /\ lineText(ls[Len(ls)]) = <<>> THEN SubSeq(ls, 1, Len(ls) - 1) ELSE ls

\* C10 as stated: the records returned are the data rows of the input text,
\* the header being the first line of the input text.
C10_ParseKeepsMatchingRows == parseDone => IsParseOf(parsed, writtenLines(csvLines))

\* C10 amended: the records returned are the data rows of the text trimmed of
\* the white space at its ends (blank lines before the header and after the
\* last row are no lines of it), the header being the first remaining line.
C10_ParseKeepsMatchingRowsOfTrimmedText ==
    parseDone => IsParseOf(parsed, trimmedLines(csvLines))

\* a text with a blank line before a four-field header and a padded row
C10_Witness ==
    /\ parseDone
    /\ Len(csvLines) = 3
    /\ csvLines[1].n = 0
    /\ csvLines[2].n = 4
    /\ csvLines[3] = [n |-> 4, style |-> "pad"]
    /\ Len(parsed) = 1

\* C11: every record parseCSVToJSON returns has all four fields, none of them
\* undefined.
C11_RecordsAreComplete ==
    parseDone =>
        \A k \in 1..Len(parsed) : \A j \in 1..4 : fieldsOf(parsed[k])[j] # UNDEFINED

----------------------------------------------------------------------------
(* Properties of the filter, the date label and the request count, under Spec *)

Range(seq) == {seq[i] : i \in 1..Len(seq)}
Count(seq, r) == Cardinality({i \in 1..Len(seq) : seq[i] = r})

\* C12: in the step a cycle succeeds, the today key is the UTC date of a
\* clock reading of that step, and each record occurs in the menu exactly as often as it
\* occurs among the parsed records if its date equals the today key, and not
\* at all otherwise.
C12_ViewIsExactlyTodaysRecords ==
    [][\A c \in CycleIds :
          (cycles[c].pc = "text" /\ cycles'[c].pc = "ok") =>
              LET data == cycles'[c].data
                  today == cycles'[c].today
              IN /\ \E t \in Instants : today = isoDate(t)
                 /\ \A r \in Range(data) \cup Range(menuItems') :
                        Count(menuItems', r) =
                            IF r.Date = today THEN Count(data, r) ELSE 0]_vars

\* a cycle succeeded with a sheet of which one record is of today and one is not
C12_Witness ==
    \E c \in CycleIds :
        /\ cycles[c].pc = "ok"
        /\ writer.menuItems = c
        /\ menuItems # <<>>
        /\ \E r \in Range(cycles[c].data) : r.Date # cycles[c].today
        /\ \E r \in Range(cycles[c].data) : r.Date = cycles[c].today

\* the calendar date a label shows, written as an ISO key
monthNumber(name) == CHOOSE m \in 1..12 : MonthNames[m] = name
dateOfLabel(label) ==
    pad4(label[4]) \o <<"-">> \o pad2(monthNumber(label[3])) \o <<"-">> \o pad2(label[2])

\* C15: in every Ready state (not loading, no error, menu set by a cycle) the
\* date the label shows is the date of the today key that filtered the menu.
C15_LabelShowsTodayKey ==
    (~loading /\ error = NULL /\ writer.menuItems # 0) =>
        dateOfLabel(currentDate) = cycles[writer.menuItems].today

\* C16: a request is issued once per cycle and never again: the requests
\* issued are as many as the cycles started, none before activation and one
\* for the activation plus one per tick afterwards.
C16_OneRequestPerCycle ==
    /\ requests = Len(cycles)
    /\ requests = (IF phase = "init" THEN 0 ELSE ticks + 1)

\* a cycle failed, and the only request after it is the one of the next tick
C16_Witness ==
    /\ Len(cycles) = 2
    /\ resolved = <<1>>
    /\ cycles[1].pc = "failed"
    /\ ticks = 1
    /\ requests = 2
    /\ cycles[2].pc = "fetch"

----------------------------------------------------------------------------
(* The loading flag under overlapping cycles *)

\* C17 as stated: whenever a cycle is in flight the loading flag is true.
C17_InFlightImpliesLoading == (\E c \in CycleIds : InFlight(c)) => loading

\* C17 amended: every start of a cycle sets the loading flag, and the flag is
\* cleared only in a step in which a cycle completes; so it is true while a
\* cycle is in flight for as long as no cycle has completed since the latest
\* start.
C17_LoadingFromStartToNextCompletion ==
    [][/\ Len(cycles') > Len(cycles) => loading' = TRUE
       /\ (loading /\ ~loading') => \E c \in CycleIds : Completes(c)
       /\ (\E c \in CycleIds : Completes(c)) => loading' = FALSE]_vars

\* cycle 1 has completed while cycle 2, started before that, awaits its
\* response body: the flag is false with a cycle in flight
C17_Witness ==
    /\ Len(cycles) = 2
    /\ resolved = <<1>>
    /\ cycles[2].pc = "text"
    /\ writer.error = 2
    /\ cycles[1].pc = "ok"
    /\ ~loading

\* every issued request, and every read of a response body, eventually
\* succeeds or fails
\* (the display timezone, which no step of a cycle towards its completion reads
\* before the last one, is UTC)
ResponsiveSpec ==
    /\ ResponsiveInit
    /\ [][Next]_vars
    /\ \A c \in 1..MaxCycles : WF_vars(c \in CycleIds /\ Resolve(c))

\* C18: every cycle in flight eventually completes, a completing step clears
\* the loading flag whether the cycle succeeded or failed, and whenever no
\* cycle is in flight after one has resolved the flag is false.
C18_LoadingIsCleared ==
    /\ \A c \in 1..MaxCycles :
           (c \in CycleIds /\ InFlight(c)) ~> (c \in CycleIds /\ ~InFlight(c))
    /\ [][\A c \in CycleIds : Completes(c) => loading' = FALSE]_vars
    /\ [](NoneInFlight /\ resolved # <<>> => ~loading)

\* no cycle is in flight, one cycle has succeeded and one has failed
C18_Witness ==
    /\ NoneInFlight
    /\ \E c \in CycleIds : cycles[c].pc = "ok"
    /\ \E c \in CycleIds : cycles[c].pc = "failed"
    /\ Status # "Loading"

----------------------------------------------------------------------------
(* The render of the menu: groupByMealType and sortedMealTypes *)

Dinner == <<"D", "i", "n", "n", "e", "r">>
Unknown == <<"U", "n", "k", "n", "o", "w", "n">>
LowerLunch == <<"l", "u", "n", "c", "h">>
Seven == <<"7">>
Three == <<"3">>
Constructor == <<"c", "o", "n", "s", "t", "r", "u", "c", "t", "o", "r">>

\* the names of the properties an object literal inherits from Object.prototype
PrototypeKeys ==
    {Constructor,
     <<"_", "_", "p", "r", "o", "t", "o", "_", "_">>,
     <<"t", "o", "S", "t", "r", "i", "n", "g">>,
     <<"v", "a", "l", "u", "e", "O", "f">>,
     <<"t", "o", "L", "o", "c", "a", "l", "e", "S", "t", "r", "i", "n", "g">>,
     <<"h", "a", "s", "O", "w", "n", "P", "r", "o", "p", "e", "r", "t", "y">>,
     <<"i", "s", "P", "r", "o", "t", "o", "t", "y", "p", "e", "O", "f">>,
     <<"p", "r", "o", "p", "e", "r", "t", "y", "I", "s", "E", "n", "u", "m", "e", "r", "a", "b", "l", "e">>,
     <<"_", "_", "d", "e", "f", "i", "n", "e", "G", "e", "t", "t", "e", "r", "_", "_">>,
     <<"_", "_", "d", "e", "f", "i", "n", "e", "S", "e", "t", "t", "e", "r", "_", "_">>,
     <<"_", "_", "l", "o", "o", "k", "u", "p", "G", "e", "t", "t", "e", "r", "_", "_">>,
     <<"_", "_", "l", "o", "o", "k", "u", "p", "S", "e", "t", "t", "e", "r", "_", "_">>}

\* the property key a value used as grouped[...] denotes
propertyKey(v) ==
    IF v = UNDEFINED THEN <<"u", "n", "d", "e", "f", "i", "n", "e", "d">> ELSE v

\* the position of the own property k among the entries of an object, 0 if none
ownIndex(entries, k) ==
    IF \E i \in 1..Len(entries) : entries[i].key = k
    THEN CHOOSE i \in 1..Len(entries) : entries[i].key = k
    ELSE 0

\* the forEach of groupByMealType from item i on, grouped being the object
\* built so far; the result tells whether a callback threw
RECURSIVE groupItems(_, _, _)
groupItems(items, i, grouped) ==
    IF i > Len(items) THEN [threw |-> FALSE, entries |-> grouped]
    ELSE LET k == propertyKey(items[i].Meal_Type)
             own == ownIndex(grouped, k)
         IN IF own # 0
            THEN \* grouped[k] is the array created before: push
                 groupItems(items, i + 1,
                            [grouped EXCEPT ![own].items = Append(@, items[i])])
            ELSE IF k \in PrototypeKeys
            THEN \* grouped[k] is the inherited value, which is truthy and has
                 \* no push: TypeError
                 [threw |-> TRUE, entries |-> grouped]
            ELSE \* grouped[k] is undefined: create the array, push
                 groupItems(items, i + 1,
                            Append(grouped, [key |-> k, items |-> <<items[i]>>]))

groupByMealType(items) == groupItems(items, 1, <<>>)

\* the number a string of decimal digits denotes
RECURSIVE numericValue(_)
numericValue(s) ==
    IF s = <<>> THEN 0
    ELSE 10 * numericValue(SubSeq(s, 1, Len(s) - 1))
         + (CHOOSE n \in 0..9 : digit(n) = s[Len(s)])

\* an array index: the canonical decimal form of an integer in 0 .. 2^32 - 2
\* (4294967294; a ten-digit key is compared by its first nine digits and its last)
isArrayIndex(k) ==
    /\ k # <<>>
    /\ Len(k) <= 10
    /\ \A i \in 1..Len(k) : \E n \in 0..9 : digit(n) = k[i]
    /\ (Len(k) > 1 => k[1] # "0")
    /\ Len(k) = 10 =>
           LET high == numericValue(SubSeq(k, 1, 9))
           IN high < 429496729 \/ (high = 429496729 /\ numericValue(<<k[10]>>) <= 4)

\* a sequence of array-index keys in ascending numeric order
RECURSIVE ascending(_)
ascending(ks) ==
    IF ks = <<>> THEN <<>>
    ELSE LET m == CHOOSE i \in 1..Len(ks) :
                      \A j \in 1..Len(ks) : numericValue(ks[i]) <= numericValue(ks[j])
         IN <<ks[m]>> \o ascending(SubSeq(ks, 1, m - 1) \o SubSeq(ks, m + 1, Len(ks)))

keysOf(entries) == [i \in 1..Len(entries) |-> entries[i].key]

\* Object.keys: the array-index keys in ascending numeric order, then the other
\* string keys in the order the properties were created
objectKeys(entries) ==
    ascending(SelectSeq(keysOf(entries), isArrayIndex))
        \o SelectSeq(keysOf(entries), LAMBDA k : ~isArrayIndex(k))

mealTypeOrder == <<Breakfast, Lunch, Snacks, Dinner>>

\* mealTypeOrder.indexOf(a), -1 when a is not in the list
indexOf(list, a) ==
    IF \E i \in 1..Len(list) : list[i] = a
    THEN (CHOOSE i \in 1..Len(list) : list[i] = a) - 1
    ELSE -1

\* the comparator of line 87-89
compareMealTypes(a, b) ==
    LET aIndex == indexOf(mealTypeOrder, a)
        bIndex == indexOf(mealTypeOrder, b)
    IN (IF aIndex = -1 THEN 999 ELSE aIndex) - (IF bIndex = -1 THEN 999 ELSE bIndex)

\* x put into a sorted array behind every element that does not compare greater
insertSorted(sorted, x) ==
    LET n == Cardinality({i \in 1..Len(sorted) :
                             \A j \in 1..i : compareMealTypes(sorted[j], x) <= 0})
    IN SubSeq(sorted, 1, n) \o <<x>> \o SubSeq(sorted, n + 1, Len(sorted))

\* Array.prototype.sort with that comparator: a stable sort
RECURSIVE sortMealTypes(_)
sortMealTypes(keys) ==
    IF keys = <<>> THEN <<>>
    ELSE insertSorted(sortMealTypes(SubSeq(keys, 1, Len(keys) - 1)), keys[Len(keys)])

----------------------------------------------------------------------------
(* The render applied to a bounded family of menus *)

\* items of a menu handed to the render
MaxItems == 5

Categories ==
    {Breakfast, Lunch, Snacks, Dinner, Unknown, LowerLunch, Seven, Three, Constructor}

\* the item at position i of a menu, named by its position
menuItemAt(i, category) ==
    [Date |-> isoDate(NewYear2024), Meal_Type |-> category,
     Item_Name |-> <<"i", "t", "e", "m", digit(i)>>, Price |-> <<"5", "0">>]

\* the menu whose items have the categories cs, in that order
menuOf(cs) == [i \in 1..Len(cs) |-> menuItemAt(i, cs[i])]

RenderInit ==
    /\ phase = "init"
    /\ timer = FALSE
    /\ \E n \in 0..MaxItems : \E cs \in [1..n -> Categories] : menuItems = menuOf(cs)
    /\ loading = FALSE
    /\ error = NULL
    /\ currentDate = toLocaleDateString(NewYear2024, 0)
    /\ cycles = <<>>
    /\ resolved = <<>>
    /\ writer = CellsInit
    /\ ticks = 0
    /\ requests = 0
    /\ consoleLog = <<>>
    /\ tz = 0
    /\ clock = Mounted
    /\ ParseIdle
    /\ RenderIdle

\* lines 85-90 of one render of App
Render ==
    /\ rendered = "idle"
    /\ LET grouped == groupByMealType(menuItems)
       IN IF grouped.threw
          THEN /\ rendered' = "threw"
               /\ UNCHANGED <<groupedMenu, sortedMealTypes>>
          ELSE /\ rendered' = "done"
               /\ groupedMenu' = grouped.entries
               /\ sortedMealTypes' = sortMealTypes(objectKeys(grouped.entries))
    /\ UNCHANGED <<appVars, parseVars>>

RenderNext == Render

RenderSpec == RenderInit /\ [][RenderNext]_vars

----------------------------------------------------------------------------
(* Properties of the render, checked under RenderSpec *)

categoriesOf(items) == {items[i].Meal_Type : i \in 1..Len(items)}
firstIndexOf(items, category) ==
    CHOOSE i \in 1..Len(items) :
        items[i].Meal_Type = category /\ \A j \in 1..(i - 1) : items[j].Meal_Type # category
isListed(category) == \E i \in 1..Len(mealTypeOrder) : mealTypeOrder[i] = category
priorityOf(category) == CHOOSE i \in 1..Len(mealTypeOrder) : mealTypeOrder[i] = category

\* order lists every category of items once, the listed ones first and in the
\* order of the priority list, the others after them in the order of their
\* first item
IsDisplayOrder(order, items) ==
    /\ Range(order) = categoriesOf(items)
    /\ Len(order) = Cardinality(categoriesOf(items))
    /\ \A i, j \in 1..Len(order) :
           i < j =>
               /\ isListed(order[j]) => isListed(order[i])
               /\ (isListed(order[i]) /\ isListed(order[j])) =>
                      priorityOf(order[i]) < priorityOf(order[j])
               /\ (~isListed(order[i]) /\ ~isListed(order[j])) =>
                      firstIndexOf(items, order[i]) < firstIndexOf(items, order[j])

\* C13: the category order a render displays lists every category of the
\* menu once, listed categories first in priority order, unlisted ones after
\* them in the order they were first encountered.
C13_CategoryOrder ==
    rendered = "done" => IsDisplayOrder(sortedMealTypes, menuItems)

\* the items of a menu that have the given category, in menu order
itemsOfCategory(items, category) ==
    SelectSeq(items, LAMBDA item : item.Meal_Type = category)

\* C14: every render groups the menu: each category of the menu has one
\* group, no group has another key, and the group of a category holds the
\* items of exactly that category in menu order, so every item is in exactly
\* one group.
C14_GroupingIsPartition ==
    rendered # "idle" =>
        /\ rendered = "done"
        /\ Range(keysOf(groupedMenu)) = categoriesOf(menuItems)
        /\ Len(groupedMenu) = Cardinality(categoriesOf(menuItems))
        /\ \A g \in 1..Len(groupedMenu) :
               groupedMenu[g].items = itemsOfCategory(menuItems, groupedMenu[g].key)

====
